---- MODULE Spec2Model ----
(***************************************************************************)
(* Model of the data pipeline of the TRUCCO analytics dashboard:           *)
(*   src/dash_app.py        load_excel_data (type inference, dropna),      *)
(*                          handle_file_upload, update_filters,            *)
(*                          update_main_content (the session's store)      *)
(*   src/dashboard_dash.py  custom_sort_key,                               *)
(*                          DashboardDash.preprocess_*_data,               *)
(*                          calculate_basic_kpis and the charts and tables *)
(*                          of the summary, create_product_analysis,       *)
(*                          create_dashboard_content (cost join),          *)
(*                          create_pvp_analysis (price bands)              *)
(*                                                                         *)
(* A data frame is a record [id, cols, rows]: id is the identity of the    *)
(* Python object (a copy has a new one), cols the set of column names and  *)
(* rows a sequence of functions from cols to cells.  A cell is a record    *)
(* [k, n, s]: k is the kind of value, n its number, s its text.            *)
(* Prices, costs and quantities are whole numbers; the Beneficio column    *)
(* is held in half euros, so that the factor 0.5 of the fallback margin    *)
(* is exact.  Column names and texts are written without their accents     *)
(* and without the euro sign ('Código único' is "Codigo unico", 'Año' is   *)
(* "Ano", '0-10€' is "0-10").                                              *)
(***************************************************************************)
EXTENDS Integers, Sequences, FiniteSets, TLC

VARIABLES
    pc,         \* where the run is
    df_ventas,  \* the caller's sales table
    given,      \* the sales table as it was given
    pre,        \* outcome of preprocess_ventas_data
    pre2,       \* outcome of preprocess_ventas_data on pre.ret
    sheet,      \* a sheet as pd.read_excel parsed it
    typed,      \* the sheet after the type inference loop
    loaded,     \* the table load_excel_data returns for the sheet
    df_productos,  \* the products table passed to create_dashboard_content
    seccion,    \* the section asked for
    joined,     \* the sales table after the cost join
    content,    \* what the handler produced
    data_store,     \* dcc.Store "data-store": the session's tables
    last_upload,    \* what the most recent upload produced (history)
    upload_status,  \* the alert under the upload box
    nav,            \* nav-radio
    season_filter,  \* the selected season
    family_filter,  \* the selected family
    filter_options, \* the options of the two filters
    tallas,     \* a list of size labels
    ordenadas   \* the list sorted by custom_sort_key

sessVars == <<data_store, last_upload, upload_status, nav, season_filter,
              family_filter, filter_options>>
sortVars == <<tallas, ordenadas>>

vars == <<pc, df_ventas, given, pre, pre2, sheet, typed, loaded,
          df_productos, seccion, joined, content, sessVars, sortVars>>

preVars == <<given, pre, pre2>>
loadVars == <<sheet, typed, loaded>>
dashVars == <<df_productos, seccion, joined>>

(***************************************************************************)
(* Bounds of the model.                                                    *)
(***************************************************************************)
MaxRows == 2
MaxSheetRows == 5
MaxTallas == 3
MaxAggRows == 4

(***************************************************************************)
(* Cells.                                                                  *)
(***************************************************************************)
Num(x) == [k |-> "num", n |-> x, s |-> ""]
Str(t) == [k |-> "str", n |-> 0, s |-> t]
Date(d) == [k |-> "date", n |-> d, s |-> ""]
Bool(b) == [k |-> "bool", n |-> IF b THEN 1 ELSE 0, s |-> ""]
NA == [k |-> "na", n |-> 0, s |-> ""]
NaT == [k |-> "nat", n |-> 0, s |-> ""]

isna(c) == c.k \in {"na", "nat"}

(***************************************************************************)
(* Data frames.                                                            *)
(***************************************************************************)
NoRow == [c \in {} |-> NA]

DataFrame(C, r) == [id |-> 0, cols |-> C, rows |-> r]

EmptyFrame == DataFrame({}, <<>>)

\* DataFrame.empty: some axis has length 0
empty(df) == df.cols = {} \/ Len(df.rows) = 0

\* the contents of a frame, whatever object holds them
Frame(df) == [cols |-> df.cols, rows |-> df.rows]

\* DataFrame.copy(): the same contents in a new object
copy_Alias(df) == df
copy(df) == [df EXCEPT !.id = df.id + 1]

\* Op applied to the value of x, which is computed once
With(x, Op(_)) == CHOOSE r \in {Op(v) : v \in {x}} : TRUE

\* df[col] = F(row) for every row: an existing column is overwritten in place
SetColumn(df, col, F(_)) ==
    LET Set(d) ==
            [d EXCEPT !.cols = d.cols \cup {col},
                      !.rows = [i \in 1..Len(d.rows) |->
                                   [c \in d.cols \cup {col} |->
                                       IF c = col THEN F(d.rows[i]) ELSE d.rows[i][c]]]]
    IN With(df, Set)

DropColumn(df, col) ==
    LET Drop(d) ==
            [d EXCEPT !.cols = d.cols \ {col},
                      !.rows = [i \in 1..Len(d.rows) |->
                                   [c \in d.cols \ {col} |-> d.rows[i][c]]]]
    IN With(df, Drop)

Column(df, col) == {df.rows[i][col] : i \in 1..Len(df.rows)}

\* the caller's table once the callee has worked on df: the callee's writes
\* show in it only when df is the same object
CallerSees(arg, df) == IF df.id = arg.id THEN df ELSE arg

(***************************************************************************)
(* pd.to_datetime(..., dayfirst=True, errors='coerce'), cell by cell.      *)
(* A date is the number yyyymmdd.                                          *)
(***************************************************************************)
DateOf(y, m, d) == y * 10000 + m * 100 + d

\* the date texts of the model, as <<first field, second field, year>>
DateFields(s) ==
    CASE s = "03/04/2024" -> <<3, 4, 2024>>
      [] s = "01/12/2023" -> <<1, 12, 2023>>
      [] OTHER -> <<0, 0, 0>>

\* dayfirst=True: the first field is the day, the second the month
ParseDayFirst(s) ==
    LET f == DateFields(s)
    IN IF f[3] = 0 THEN NaT ELSE Date(DateOf(f[3], f[2], f[1]))

to_datetime(c) ==
    CASE c.k = "date" -> c
      [] c.k = "str" -> ParseDayFirst(c.s)
      [] c.k = "num" -> Date(DateOf(1970, 1, 1))
      [] OTHER -> NaT

dt_year(c) == IF c.k = "date" THEN Num(c.n \div 10000) ELSE NA
dt_month(c) == IF c.k = "date" THEN Num((c.n \div 100) % 100) ELSE NA

MonthNames ==
    <<"January", "February", "March", "April", "May", "June", "July",
      "August", "September", "October", "November", "December">>

dt_strftime_B(c) == IF c.k = "date" THEN Str(MonthNames[(c.n \div 100) % 100]) ELSE NA

(***************************************************************************)
(* preprocess_ventas_data                                                  *)
(***************************************************************************)
TIENDAS_EXTRANJERAS ==
    {"I301COINBERGAMO(TRUCCO)", "I302COINVARESE(TRUCCO)", "I303COINBARICASAMASSIMA(TRUCCO)",
     "I304COINMILANO5GIORNATE(TRUCCO)", "I305COINROMACINECITTA(TRUCCO)", "I306COINGENOVA(TRUCCO)",
     "I309COINSASSARI(TRUCCO)", "I314COINCATANIA(TRUCCO)", "I315COINCAGLIARI(TRUCCO)",
     "I316COINLECCE(TRUCCO)", "I317COINMILANOCANTORE(TRUCCO)", "I318COINMESTRE(TRUCCO)",
     "I319COINPADOVA(TRUCCO)", "I320COINFIRENZE(TRUCCO)", "I321COINROMASANGIOVANNI(TRUCCO)",
     "TRUCCOONLINEB2C"}

\* Series.isin: exact membership; NaN is in no list of texts
isin_Folded(c) ==
    Bool(c.k = "str" /\ c.s \in TIENDAS_EXTRANJERAS
                                  \cup {"truccoonlineb2c", " TRUCCOONLINEB2C"})
isin_TIENDAS_EXTRANJERAS(c) == Bool(c.k = "str" /\ c.s \in TIENDAS_EXTRANJERAS)

\* for col in date_columns: if col in df.columns: df[col] = pd.to_datetime(...)
RECURSIVE FixDates(_, _)
FixDates(df, date_columns) ==
    IF date_columns = <<>> THEN df
    ELSE LET col == Head(date_columns)
             F(row) == to_datetime(row[col])
         IN FixDates(IF col \in df.cols THEN SetColumn(df, col, F) ELSE df,
                     Tail(date_columns))

\* if 'Fecha Documento' in df.columns: Año, Mes, Mes_Nombre are added
AddDateParts(df) ==
    IF "Fecha Documento" \in df.cols
    THEN LET Y(row) == dt_year(row["Fecha Documento"])
             M(row) == dt_month(row["Fecha Documento"])
             B(row) == dt_strftime_B(row["Fecha Documento"])
         IN SetColumn(SetColumn(SetColumn(df, "Ano", Y), "Mes", M), "Mes_Nombre", B)
    ELSE df

\* df['Es_Online'] = df['Tienda'].isin(TIENDAS_EXTRANJERAS)
AddEsOnline(df) ==
    LET F(row) == isin_TIENDAS_EXTRANJERAS(row["Tienda"])
    IN SetColumn(df, "Es_Online", F)

\* (P.V.P. - Precio Coste) * Cantidad, in half euros; missing operands give a missing margin
MargenConCoste(row) ==
    IF isna(row["P.V.P."]) \/ isna(row["Precio Coste"]) \/ isna(row["Cantidad"])
    THEN NA
    ELSE Num(2 * (row["P.V.P."].n - row["Precio Coste"].n) * row["Cantidad"].n)

\* P.V.P. * Cantidad * 0.5, in half euros
MargenSinCoste(row) ==
    IF isna(row["P.V.P."]) \/ isna(row["Cantidad"])
    THEN NA
    ELSE Num(row["P.V.P."].n * row["Cantidad"].n)

\* which branch of the Beneficio step runs
BeneficioBranch(df) ==
    IF "Beneficio" \in df.cols THEN "keep"
    ELSE IF {"P.V.P.", "Cantidad", "Precio Coste"} \subseteq df.cols THEN "cost"
    ELSE IF {"P.V.P.", "Cantidad"} \subseteq df.cols THEN "fallback"
    ELSE "none"

\* arithmetic on a column that holds text raises TypeError
BeneficioRaises(df) ==
    \/ /\ BeneficioBranch(df) = "cost"
       /\ \E col \in {"P.V.P.", "Cantidad", "Precio Coste"} :
             \E c \in Column(df, col) : c.k = "str"
    \/ /\ BeneficioBranch(df) = "fallback"
       /\ \E col \in {"P.V.P.", "Cantidad"} :
             \E c \in Column(df, col) : c.k = "str"

AddBeneficio(df) ==
    CASE BeneficioBranch(df) = "cost" -> SetColumn(df, "Beneficio", MargenConCoste)
      [] BeneficioBranch(df) = "fallback" -> SetColumn(df, "Beneficio", MargenSinCoste)
      [] OTHER -> df

\* except Exception: return df_ventas
OnException_ReturnsWork(arg, df) == df
OnException(arg, df) == arg

\* The outcome of one call: ret is the table returned, exc the exception caught
\* inside ("none" when there was none), arg the caller's table after the call.
Outcome(r, e, a) == [ret |-> r, exc |-> e, arg |-> a]

preprocess_ventas_data(arg) ==
    IF empty(arg) THEN Outcome(arg, "none", arg)
    ELSE LET df0 == copy(arg)
             df1 == FixDates(df0, <<"Fecha Documento", "Fecha">>)
             df2 == AddDateParts(df1)
         IN IF "Tienda" \notin df2.cols
            THEN Outcome(OnException(CallerSees(arg, df2), df2), "KeyError",
                         CallerSees(arg, df2))
            ELSE LET df3 == AddEsOnline(df2)
                 IN IF BeneficioRaises(df3)
                    THEN Outcome(OnException(CallerSees(arg, df3), df3), "TypeError",
                                 CallerSees(arg, df3))
                    ELSE LET df4 == AddBeneficio(df3)
                         IN Outcome(df4, "none", CallerSees(arg, df4))

(***************************************************************************)
(* preprocess_productos_data, preprocess_traspasos_data                    *)
(***************************************************************************)
preprocess_productos_data(arg) ==
    IF empty(arg) THEN Outcome(arg, "none", arg)
    ELSE LET df == FixDates(copy(arg), <<"Fecha Entrada Almacen", "Fecha Documento">>)
         IN Outcome(df, "none", CallerSees(arg, df))

preprocess_traspasos_data(arg) ==
    IF empty(arg) THEN Outcome(arg, "none", arg)
    ELSE LET df == FixDates(copy(arg), <<"Fecha Documento", "Fecha Envio">>)
         IN Outcome(df, "none", CallerSees(arg, df))

(***************************************************************************)
(* custom_sort_key                                                         *)
(***************************************************************************)
\* the size labels of the model
Tallas == {"M", "38", "XL", "36", "U", "S", "Z", "m", " s ", "TU", "A", "9", "100", "XS"}

\* str(talla).upper().strip()
upper_strip(talla) ==
    CASE talla = "m" -> "M"
      [] talla = " s " -> "S"
      [] OTHER -> talla

\* str.isdigit
isdigit(t) == t \in {"36", "38", "9", "100"}

\* int(talla_str)
int(t) ==
    CASE t = "36" -> 36
      [] t = "38" -> 38
      [] t = "9" -> 9
      [] t = "100" -> 100

size_order == <<"XS", "S", "M", "L", "XL", "XXL">>

\* size_order.index(talla_str)
index(t) == CHOOSE i \in 1..Len(size_order) : size_order[i] = t

\* ['U', 'UNICA', 'TU'] ('UNICA' is in the list with and without its accent)
unique_sizes == {"U", "UNICA", "TU"}

\* the keys are tuples (priority, number) or (priority, text)
Key(p, n, t) == [p |-> p, n |-> n, t |-> t]

custom_sort_key_NoNumbers(talla) ==
    LET talla_str == upper_strip(talla)
    IN IF talla_str \in {size_order[i] : i \in 1..Len(size_order)}
       THEN Key(1, index(talla_str), "")
       ELSE IF talla_str \in unique_sizes THEN Key(2, 0, talla_str)
       ELSE Key(3, 0, talla_str)

custom_sort_key(talla) ==
    LET talla_str == upper_strip(talla)
    IN IF isdigit(talla_str) THEN Key(0, int(talla_str), "")
       ELSE IF talla_str \in {size_order[i] : i \in 1..Len(size_order)}
       THEN Key(1, index(talla_str), "")
       ELSE IF talla_str \in unique_sizes THEN Key(2, 0, talla_str)
       ELSE Key(3, 0, talla_str)

\* the texts of the keys in the order Python compares str (code points)
CodePointOrder == <<"", "100", "36", "38", "9", "A", "L", "M", "S", "TU", "U", "UNICA",
                    "XL", "XS", "XXL", "Z">>

str_lt(a, b) ==
    \E i, j \in 1..Len(CodePointOrder) :
        CodePointOrder[i] = a /\ CodePointOrder[j] = b /\ i < j

\* tuple comparison: first the priority, then the second component
key_lt(a, b) ==
    \/ a.p < b.p
    \/ a.p = b.p /\ a.n < b.n
    \/ a.p = b.p /\ a.n = b.n /\ str_lt(a.t, b.t)

\* a label put into a sorted list after the labels whose key is not greater
RECURSIVE insort(_, _)
insort(lst, talla) ==
    IF lst = <<>> THEN <<talla>>
    ELSE IF key_lt(custom_sort_key(talla), custom_sort_key(Head(lst)))
    THEN <<talla>> \o lst
    ELSE <<Head(lst)>> \o insort(Tail(lst), talla)

\* sorted(lst, key=custom_sort_key): labels with equal keys keep their order
RECURSIVE sorted(_)
sorted(lst) ==
    IF lst = <<>> THEN <<>>
    ELSE insort(sorted(SubSeq(lst, 1, Len(lst) - 1)), lst[Len(lst)])

(***************************************************************************)
(* create_pvp_analysis                                                     *)
(***************************************************************************)
\* what a handler produced: kind is "components", "alert" or "exception"
\* (the exception left the handler), of names it, data holds its figures
Content(kind, of, data) == [kind |-> kind, of |-> of, data |-> data]

NoData == <<>>

\* bins=[0, 10, 25, 50, 100, float('inf')]
bins == <<0, 10, 25, 50, 100>>

labels == <<"0-10", "10-25", "25-50", "50-100", "100+">>

\* pd.cut with the default right=True: a bin holds its right edge and not
\* its left one; a value in no bin has no label
cut(c) ==
    IF c.k # "num" \/ c.n <= bins[1] THEN NA
    ELSE LET b == CHOOSE i \in 1..Len(bins) :
                     /\ bins[i] < c.n
                     /\ \A j \in 1..Len(bins) : bins[j] < c.n => j <= i
         IN Str(labels[b])

\* the sum of a column over rows; a missing value adds nothing
RECURSIVE SumOf(_, _)
SumOf(rows, col) ==
    IF rows = <<>> THEN 0
    ELSE (IF Head(rows)[col].k = "num" THEN Head(rows)[col].n ELSE 0)
         + SumOf(Tail(rows), col)

\* df_ventas.groupby('Rango_Precio').agg({'Cantidad': 'sum', 'Beneficio': 'sum'})
GroupByRango(df) ==
    [l \in {labels[i] : i \in 1..Len(labels)} |->
        LET In(row) == row["Rango_Precio"] = Str(l)
        IN [Cantidad |-> SumOf(SelectSeq(df.rows, In), "Cantidad"),
            Beneficio |-> SumOf(SelectSeq(df.rows, In), "Beneficio")]]

\* df: the table after the call (Rango_Precio is written into the table passed)
create_pvp_analysis(arg) ==
    IF "P.V.P." \notin arg.cols
    THEN [df |-> arg, content |-> Content("alert", "No hay datos de PVP disponibles", NoData)]
    ELSE IF \E c \in Column(arg, "P.V.P.") : c.k = "str"
    THEN [df |-> arg, content |-> Content("alert", "Error en analisis PVP", NoData)]
    ELSE LET R(row) == cut(row["P.V.P."])
             df == SetColumn(arg, "Rango_Precio", R)
         IN IF ~({"Cantidad", "Beneficio"} \subseteq df.cols)
            THEN [df |-> df, content |-> Content("alert", "Error en analisis PVP", NoData)]
            ELSE [df |-> df, content |-> Content("components", "pvp", GroupByRango(df))]

(***************************************************************************)
(* The aggregates: calculate_basic_kpis, the charts and tables of the      *)
(* summary, create_product_analysis.  Sums of Beneficio are in half euros. *)
(***************************************************************************)
\* df[mask]: the rows where the mask holds, in a new object
Where(df, Mask(_)) == [df EXCEPT !.id = df.id + 1, !.rows = SelectSeq(df.rows, Mask)]

abs_Signed(x) == x
abs(x) == IF x < 0 THEN 0 - x ELSE x

\* Series.nunique(): the distinct values that are not missing
nunique(df, col) == Cardinality({c \in Column(df, col) : ~isna(c)})

\* df_ventas[df_ventas['Cantidad'] < 0] (NaN < 0 is False)
devoluciones(df) ==
    LET Negative(row) == row["Cantidad"].k = "num" /\ row["Cantidad"].n < 0
    IN Where(df, Negative)

\* df['Beneficio'].sum() if 'Beneficio' in df.columns else 0
SumIfPresent_One(df, col) == 1
SumIfPresent(df, col) == IF col \in df.cols THEN SumOf(df.rows, col) ELSE 0

\* abs(devoluciones['Beneficio'].sum()) if not devoluciones.empty and ... else 0
total_devoluciones_dinero(dev) ==
    IF ~empty(dev) /\ "Beneficio" \in dev.cols THEN abs(SumOf(dev.rows, "Beneficio")) ELSE 0

calculate_basic_kpis(df) ==
    LET Online(row) == row["Es_Online"] = Bool(TRUE)
        Fisica(row) == row["Es_Online"] = Bool(FALSE)
        dev == IF "Cantidad" \in df.cols THEN devoluciones(df) ELSE EmptyFrame
        ventas_fisicas == IF "Es_Online" \in df.cols THEN Where(df, Fisica) ELSE df
        ventas_online == IF "Es_Online" \in df.cols THEN Where(df, Online) ELSE EmptyFrame
    IN [total_ventas_dinero |-> SumIfPresent(df, "Beneficio"),
        total_devoluciones_dinero |-> total_devoluciones_dinero(dev),
        total_familias |-> IF "Familia" \in df.cols THEN nunique(df, "Familia") ELSE 0,
        ventas_fisicas_dinero |-> SumIfPresent(ventas_fisicas, "Beneficio"),
        ventas_online_dinero |->
            IF ~empty(ventas_online) THEN SumIfPresent(ventas_online, "Beneficio") ELSE 0,
        tiendas_fisicas |->
            IF "Tienda" \in ventas_fisicas.cols THEN nunique(ventas_fisicas, "Tienda") ELSE 0,
        tiendas_online |->
            IF ~empty(ventas_online) /\ "Tienda" \in ventas_online.cols
            THEN nunique(ventas_online, "Tienda") ELSE 0]

create_kpi_cards(df) == Content("components", "kpis", calculate_basic_kpis(df))

\* the keys of a groupby: the values of the column that are not missing
GroupKeys(df, col) == {c \in Column(df, col) : ~isna(c)}

\* groupby(col).agg({'Beneficio': 'sum', 'Cantidad': 'sum'}) for one key
GroupSums(df, col, key) ==
    LET In(row) == row[col] = key
    IN [key |-> key,
        Beneficio |-> SumIfPresent(Where(df, In), "Beneficio"),
        Cantidad |-> SumIfPresent(Where(df, In), "Cantidad")]

\* the bars of the chart, one for each month and kind of store
create_monthly_sales_chart(df) ==
    IF "Mes" \notin df.cols \/ "Es_Online" \notin df.cols
    THEN Content("alert", "Datos insuficientes para crear grafico mensual", NoData)
    ELSE IF ~({"Cantidad", "Beneficio"} \subseteq df.cols)
    THEN Content("alert", "Error creando grafico mensual", NoData)
    ELSE Content("graph", "mensual",
                 {[Mes |-> m, Es_Online |-> o,
                   Beneficio |-> LET In(row) == row["Mes"] = m /\ row["Es_Online"] = o
                                 IN SumOf(SelectSeq(df.rows, In), "Beneficio")] :
                    m \in GroupKeys(df, "Mes"), o \in GroupKeys(df, "Es_Online")})

\* the bars of the chart, one for each size (fewer than 20 here); their
\* order is left out
create_size_analysis_chart(df) ==
    IF "Talla" \notin df.cols
    THEN Content("alert", "No hay datos de tallas disponibles", NoData)
    ELSE LET Valid(row) == ~isna(row["Talla"]) /\ row["Talla"] # Str("")
             tallas_validas == Where(df, Valid)
         IN IF empty(tallas_validas)
            THEN Content("alert", "No hay tallas validas en los datos", NoData)
            ELSE IF "Cantidad" \notin df.cols
            THEN Content("alert", "Error creando analisis de tallas", NoData)
            ELSE Content("graph", "tallas",
                         {GroupSums(tallas_validas, "Talla", k) :
                            k \in GroupKeys(tallas_validas, "Talla")})

\* the bars of the chart, one for each store (fewer than 15 here); their
\* order is left out
create_store_performance_chart(df) ==
    IF "Tienda" \notin df.cols \/ "Beneficio" \notin df.cols
    THEN Content("alert", "Datos insuficientes para analisis de tiendas", NoData)
    ELSE Content("graph", "tiendas",
                 {GroupSums(df, "Tienda", k) : k \in GroupKeys(df, "Tienda")})

\* the family names of the model, in the order groupby sorts its keys
Familias == <<"F01", "F02", "F03", "F04", "F05", "F06", "F07", "F08", "F09", "F10", "F11">>

\* df_ventas.groupby('Familia').agg({'Beneficio': 'sum', 'Cantidad': 'sum'})
\* .reset_index(): one row for each family, in the order of the sorted keys
GroupByFamilia(df) ==
    LET Present(f) == Str(f) \in Column(df, "Familia")
        present == SelectSeq(Familias, Present)
    IN [i \in 1..Len(present) |-> GroupSums(df, "Familia", Str(present[i]))]

\* a row put into a list sorted by descending Beneficio, after its equals
RECURSIVE InsertDescending(_, _)
InsertDescending(lst, row) ==
    IF lst = <<>> THEN <<row>>
    ELSE IF row.Beneficio > Head(lst).Beneficio THEN <<row>> \o lst
    ELSE <<Head(lst)>> \o InsertDescending(Tail(lst), row)

RECURSIVE SortDescending(_)
SortDescending(lst) ==
    IF lst = <<>> THEN <<>>
    ELSE InsertDescending(SortDescending(SubSeq(lst, 1, Len(lst) - 1)), lst[Len(lst)])

\* the orders of a list
RECURSIVE Orders(_)
Orders(lst) ==
    IF lst = <<>> THEN {<<>>}
    ELSE UNION {{<<lst[i]>> \o o :
                    o \in Orders(SubSeq(lst, 1, i - 1) \o SubSeq(lst, i + 1, Len(lst)))} :
                  i \in 1..Len(lst)}

\* the orders of a list sorted by descending Beneficio in which the rows
\* of equal Beneficio change places
RECURSIVE TieOrders(_)
TieOrders(lst) ==
    IF lst = <<>> THEN {<<>>}
    ELSE LET n == Cardinality({i \in 1..Len(lst) : lst[i].Beneficio = lst[1].Beneficio})
         IN {o \o r : o \in Orders(SubSeq(lst, 1, n)),
                       r \in TieOrders(SubSeq(lst, n + 1, Len(lst)))}

\* sort_values('Beneficio', ascending=False): kind is left at its default,
\* 'quicksort', which is not a stable sort, so rows of equal Beneficio come
\* out in any order
sort_values(lst) == TieOrders(SortDescending(lst))

TopN == 10

\* .head(10)
head(lst, n) == SubSeq(lst, 1, IF Len(lst) < n THEN Len(lst) ELSE n)

\* the tables create_top_products_table can return for a sales table
\* (round(2) leaves a sum of half euros as it is)
create_top_products_table(df) ==
    IF "Familia" \notin df.cols \/ "Beneficio" \notin df.cols
    THEN {Content("alert", "Datos insuficientes para tabla de productos", NoData)}
    ELSE IF "Cantidad" \notin df.cols
    THEN {Content("alert", "Error creando tabla de productos", NoData)}
    ELSE {Content("table", "top_productos", head(o, TopN)) :
            o \in sort_values(GroupByFamilia(df))}

Card(header, body) == [header |-> header, body |-> body]

\* top_productos: the table create_top_products_table returned
create_product_analysis(df, top_productos) ==
    LET dev == devoluciones(df)
    IN Content("components", "producto",
           (IF "Familia" \in df.cols
            THEN <<Card("Analisis de Productos y Rentabilidad", top_productos)>>
            ELSE <<>>)
           \o
           (IF "Cantidad" \in df.cols /\ ~empty(dev)
            THEN <<Card("Analisis de Devoluciones",
                        [registros |-> Len(dev.rows),
                         unidades |-> abs(SumOf(dev.rows, "Cantidad"))])>>
            ELSE <<>>))

(***************************************************************************)
(* create_dashboard_content                                                *)
(***************************************************************************)
\* the rows of right whose key equals that of the left row
MatchesOf(lrow, right, on) ==
    LET Same(r) == r[on] = lrow[on]
    IN SelectSeq(right.rows, Same)

JoinRow(lrow, C, rcol, v) == [c \in C |-> IF c = rcol THEN v ELSE lrow[c]]

RowsFor_Inner(lrow, right, on, C, rcol) ==
    LET m == MatchesOf(lrow, right, on)
    IN [j \in 1..Len(m) |-> JoinRow(lrow, C, rcol, m[j]["Precio Coste"])]

\* how='left': a left row with no match is kept, its right columns missing
RowsFor(lrow, right, on, C, rcol) ==
    LET m == MatchesOf(lrow, right, on)
    IN IF m = <<>> THEN <<JoinRow(lrow, C, rcol, NA)>>
       ELSE [j \in 1..Len(m) |-> JoinRow(lrow, C, rcol, m[j]["Precio Coste"])]

RECURSIVE MergeRows(_, _, _, _, _)
MergeRows(lrows, right, on, C, rcol) ==
    IF lrows = <<>> THEN <<>>
    ELSE RowsFor(Head(lrows), right, on, C, rcol)
         \o MergeRows(Tail(lrows), right, on, C, rcol)

\* left.merge(right[[on, 'Precio Coste']], on=on, how='left', suffixes=('', '_producto')):
\* the right cost column takes the suffix only when the left table has one too
merge(left, right, on) ==
    LET rcol == IF "Precio Coste" \in left.cols THEN "Precio Coste_producto"
                ELSE "Precio Coste"
        C == left.cols \cup {rcol}
    IN [id |-> left.id + 1, cols |-> C, rows |-> MergeRows(left.rows, right, on, C, rcol)]

combine_first_SalesFirst(a, b) == IF isna(b) THEN a ELSE b
\* a.combine_first(b): a where it is not missing, else b
combine_first(a, b) == IF isna(a) THEN b ELSE a

\* the block "# Merge cost data" once the column selection has succeeded
MergeCost_Recompute(ventas, productos) ==
    LET m == merge(ventas, productos, "Codigo unico")
        F(row) == combine_first(row["Precio Coste_producto"], row["Precio Coste"])
        j == IF "Precio Coste_producto" \in m.cols
             THEN DropColumn(SetColumn(m, "Precio Coste", F), "Precio Coste_producto")
             ELSE m
    IN IF {"P.V.P.", "Cantidad", "Precio Coste", "Beneficio"} \subseteq j.cols
       THEN SetColumn(j, "Beneficio", MargenConCoste)
       ELSE j
MergeCost(ventas, productos) ==
    LET m == merge(ventas, productos, "Codigo unico")
        F(row) == combine_first(row["Precio Coste_producto"], row["Precio Coste"])
    IN IF "Precio Coste_producto" \in m.cols
       THEN DropColumn(SetColumn(m, "Precio Coste", F), "Precio Coste_producto")
       ELSE m

Secciones == {"resumen", "descripciones", "geografico", "producto", "pvp"}

Dispatch(df, sec) ==
    CASE sec = "resumen" -> [df |-> df, content |-> Content("components", "resumen", NoData)]
      [] sec = "descripciones" ->
            [df |-> df, content |-> Content("components", "descripciones", NoData)]
      [] sec = "geografico" ->
            [df |-> df, content |-> Content("components", "geografico", NoData)]
      [] sec = "producto" -> [df |-> df, content |-> Content("components", "producto", NoData)]
      [] sec = "pvp" -> create_pvp_analysis(df)
      [] OTHER -> [df |-> df, content |-> Content("alert", "Seccion no implementada", NoData)]

\* pre: the outcome of preprocess_ventas_data, whose table goes into the merge
\* block; df: the sales table at the end; content: what is returned
create_dashboard_content(productos, traspasos, ventas, sec) ==
    LET Rest(o, p) ==
            LET v == o.ret
                Result(d) == [pre |-> o, df |-> d.df, content |-> d.content]
                Section(m) == With(Dispatch(m, sec), Result)
            IN IF "Codigo unico" \in v.cols /\ "Codigo unico" \in p.cols
               THEN IF "Precio Coste" \notin p.cols
                    THEN [pre |-> o, df |-> v,
                          content |-> Content("exception", "KeyError", NoData)]
                    ELSE With(MergeCost(v, p), Section)
               ELSE Section(v)
        Products(o) ==
            LET R(p) == Rest(o, p)
            IN With(preprocess_productos_data(productos).ret, R)
    IN With(preprocess_ventas_data(ventas), Products)

(***************************************************************************)
(* load_excel_data: the cleaning loop run on each parsed sheet.            *)
(***************************************************************************)
\* the texts of the model that pd.to_numeric parses, with their value
NumericText(s) ==
    CASE s = "38" -> Num(38)
      [] s = "3" -> Num(3)
      [] OTHER -> NA

NumberText(n) ==
    CASE n = 38 -> "38"
      [] n = 3 -> "3"
      [] OTHER -> "0"

\* pd.to_numeric(..., errors='coerce'), cell by cell
to_numeric(c) ==
    CASE c.k = "num" -> c
      [] c.k = "str" -> NumericText(c.s)
      [] OTHER -> NA

\* .astype(str).replace('nan', ''): a missing value prints as 'nan'
astype_str_replace_nan(c) ==
    CASE c.k = "str" -> c
      [] c.k = "num" -> Str(NumberText(c.n))
      [] OTHER -> Str("")

\* df[col].dtype == 'object': the parsed column holds text
dtype_object(df, col) == \E c \in Column(df, col) : c.k = "str"

numeric_count(df, col) ==
    Cardinality({i \in 1..Len(df.rows) : ~isna(to_numeric(df.rows[i][col]))})

\* 0.8 as the fraction ThresholdNum / ThresholdDen
ThresholdNum == 4
ThresholdDen == 5

\* numeric_count > len(df) * 0.8
MostlyNumeric(df, col) ==
    ThresholdDen * numeric_count(df, col) > ThresholdNum * Len(df.rows)

InferColumn(df, col) ==
    LET N(row) == to_numeric(row[col])
        T(row) == astype_str_replace_nan(row[col])
    IN IF dtype_object(df, col)
       THEN IF MostlyNumeric(df, col) THEN SetColumn(df, col, N)
            ELSE SetColumn(df, col, T)
       ELSE df

\* for col in df.columns: ... (a column's outcome does not depend on the others)
RECURSIVE InferColumns(_, _)
InferColumns(df, todo) ==
    IF todo = {} THEN df
    ELSE LET col == CHOOSE x \in todo : TRUE
         IN InferColumns(InferColumn(df, col), todo \ {col})

AllNA(row, C) == \A c \in C : isna(row[c])

\* df.dropna(how='all', inplace=True)
dropna_rows(df) ==
    LET Keep(row) == ~AllNA(row, df.cols)
    IN [df EXCEPT !.rows = SelectSeq(df.rows, Keep)]

RECURSIVE DropColumns(_, _)
DropColumns(df, todo) ==
    IF todo = {} THEN df
    ELSE LET col == CHOOSE x \in todo : TRUE
         IN DropColumns(DropColumn(df, col), todo \ {col})

\* df.dropna(axis=1, how='all', inplace=True)
dropna_columns(df) ==
    DropColumns(df, {col \in df.cols : \A c \in Column(df, col) : isna(c)})

\* dcc.Store(id="data-store") before any callback wrote to it, and {}
NoStore == [set |-> FALSE, productos |-> <<>>, traspasos |-> <<>>, ventas |-> <<>>,
            filename |-> ""]

NoOptions == [season |-> <<>>, family |-> <<>>]

(***************************************************************************)
(* load_excel_data and the callbacks of dash_app.py                        *)
(***************************************************************************)
\* An upload: kind is "corrupt" (the content does not decode to a
\* workbook), "no_sheet" (a workbook without one of the three sheets),
\* "workbook" (the three sheets as pd.read_excel parses them) or "none"
\* (no upload: contents is None).
Upload(kind, productos, traspasos, ventas) ==
    [kind |-> kind, productos |-> productos, traspasos |-> traspasos, ventas |-> ventas]

None == Upload("none", EmptyFrame, EmptyFrame, EmptyFrame)

\* the loop body of load_excel_data for one sheet
clean(df) == dropna_columns(dropna_rows(InferColumns(df, df.cols)))

\* exc is the exception caught inside ("none" when there was none)
load_excel_data(contents) ==
    IF contents.kind \in {"corrupt", "no_sheet"}
    THEN [productos |-> EmptyFrame, traspasos |-> EmptyFrame, ventas |-> EmptyFrame,
          exc |-> IF contents.kind = "corrupt" THEN "BadZipFile" ELSE "ValueError"]
    ELSE [productos |-> clean(contents.productos),
          traspasos |-> clean(contents.traspasos),
          ventas |-> clean(contents.ventas),
          exc |-> "none"]

\* DataFrame.to_dict('records'): one record for each row
to_dict_records_First(df) == IF df.rows = <<>> THEN <<>> ELSE <<df.rows[1]>>
to_dict_records(df) == df.rows

\* pd.DataFrame(records): the columns are the keys of the records
from_records(records) ==
    DataFrame(IF records = <<>> THEN {} ELSE DOMAIN records[1], records)

\* as if the failure of the loader reached the except of the handler
handle_file_upload_Reports(contents, filename) ==
    IF contents # None /\ load_excel_data(contents).exc = "none"
    THEN [data |-> [set |-> TRUE,
                    productos |-> to_dict_records(load_excel_data(contents).productos),
                    traspasos |-> to_dict_records(load_excel_data(contents).traspasos),
                    ventas |-> to_dict_records(load_excel_data(contents).ventas),
                    filename |-> filename],
          status |-> "cargado correctamente"]
    ELSE [data |-> NoStore, status |-> "Error al cargar archivo"]

handle_file_upload(contents, filename) ==
    IF contents # None
    THEN LET Store(l) ==
                 [data |-> [set |-> TRUE,
                            productos |-> to_dict_records(l.productos),
                            traspasos |-> to_dict_records(l.traspasos),
                            ventas |-> to_dict_records(l.ventas),
                            filename |-> filename],
                  status |-> "cargado correctamente"]
         IN With(load_excel_data(contents), Store)
    ELSE [data |-> NoStore, status |-> ""]

\* the values of the filter columns of the model, as list.sort() orders them
Temporadas == <<"I24", "V24">>

DescripcionesFamilia == <<"Blusas">>

\* [{"value": "all"}] + [{"value": s} for s in seasons]
OptionsOf(df, col, values) ==
    IF col \in df.cols
    THEN LET Present(v) == Str(v) \in Column(df, col)
         IN <<"all">> \o SelectSeq(values, Present)
    ELSE <<"all">>

update_filters(data) ==
    IF ~data.set \/ data.ventas = <<>> THEN NoOptions
    ELSE LET Options(df) ==
                 [season |-> OptionsOf(df, "Temporada", Temporadas),
                  family |-> OptionsOf(df, "Descripcion Familia", DescripcionesFamilia)]
         IN With(from_records(data.ventas), Options)

\* a filter that lets every row through when no row has the value
ApplyFilter_Lenient(df, col, value) ==
    IF value # "all" /\ col \in df.cols /\ Str(value) \in Column(df, col)
    THEN LET Equal(row) == row[col] = Str(value)
         IN [df EXCEPT !.id = df.id + 1, !.rows = SelectSeq(df.rows, Equal)]
    ELSE df

\* df_ventas[df_ventas[col] == value] when value is not "all" and the
\* table has the column
ApplyFilter(df, col, value) ==
    IF value # "all" /\ col \in df.cols
    THEN LET Equal(row) == row[col] = Str(value)
         IN [df EXCEPT !.id = df.id + 1, !.rows = SelectSeq(df.rows, Equal)]
    ELSE df

\* "# Apply filters": the season filter, then the family filter
apply_filters(data, season, family) ==
    ApplyFilter(ApplyFilter(from_records(data.ventas), "Temporada", season),
                "Descripcion Familia", family)

update_main_content(nav_value, data, section, season, family) ==
    IF nav_value = "prediccion" THEN Content("components", "prediccion", NoData)
    ELSE IF ~data.set \/ data.ventas = <<>>
    THEN Content("alert", "Sube el archivo Excel para comenzar el analisis.", NoData)
    ELSE LET Render(v) ==
                 IF empty(v)
                 THEN Content("alert",
                              "No hay datos para mostrar con los filtros seleccionados.",
                              NoData)
                 ELSE create_dashboard_content(from_records(data.productos),
                                               from_records(data.traspasos),
                                               v, section).content
         IN With(apply_filters(data, season, family), Render)

\* the sales table update_main_content holds when it returns: none before
\* the store is read, else the table after the filters
local_df_ventas(nav_value, data, season, family) ==
    IF nav_value = "prediccion" \/ ~data.set \/ data.ventas = <<>> THEN EmptyFrame
    ELSE apply_filters(data, season, family)

(***************************************************************************)
(* The sheets the cleaning loop is applied to: Talla has no declared type  *)
(* and holds text, digits typed as text or nothing; Cantidad is declared   *)
(* Int64.  '' is among na_values, so no parsed cell is the empty text.     *)
(***************************************************************************)
SheetColumns == {"Talla", "Cantidad"}

SheetValues ==
    [col \in SheetColumns |->
        CASE col = "Talla" -> {Str("38"), Str("M"), NA}
          [] OTHER -> {Num(3), NA}]

(***************************************************************************)
(* The sales tables preprocess_ventas_data is applied to.                  *)
(***************************************************************************)
VentasColumns == {"Fecha Documento", "Tienda", "P.V.P.", "Cantidad", "Precio Coste", "Beneficio"}

VentasValues ==
    [col \in VentasColumns |->
        CASE col = "Fecha Documento" -> {Str("03/04/2024"), Str("sin fecha")}
          [] col = "Tienda" -> {Str("TRUCCOONLINEB2C"), Str("MADRID")}
          [] col = "P.V.P." -> {Num(25), NA}
          [] col = "Cantidad" -> {Num(3), Num(-1)}
          [] col = "Precio Coste" -> {Num(4), Str("")}
          [] OTHER -> {Num(7)}]

RECURSIVE RowsOver(_, _)
RowsOver(C, V) ==
    IF C = {} THEN {NoRow}
    ELSE LET c == CHOOSE x \in C : TRUE
         IN {[x \in C |-> IF x = c THEN v ELSE r[x]] : r \in RowsOver(C \ {c}, V), v \in V[c]}

TablesOver(C, V, maxRows) ==
    IF C = {} THEN {EmptyFrame}
    ELSE {DataFrame(C, r) : r \in UNION {[1..n -> RowsOver(C, V)] : n \in 0..maxRows}}

VentasTables(maxRows) ==
    UNION {TablesOver(C, VentasValues, maxRows) : C \in SUBSET VentasColumns}

SheetTables(maxRows) ==
    UNION {TablesOver(C, SheetValues, maxRows) : C \in SUBSET SheetColumns}

ProductosColumns == {"Codigo unico", "Precio Coste"}

ProductosValues ==
    [col \in ProductosColumns |->
        CASE col = "Codigo unico" -> {Str("A"), Str("B")}
          [] OTHER -> {Num(4), NA}]

ProductosTables(maxRows) ==
    UNION {TablesOver(C, ProductosValues, maxRows) : C \in SUBSET ProductosColumns}

\* the sales tables create_dashboard_content is given: update_main_content
\* passes no empty one, and the loader declares P.V.P. and Cantidad
JoinColumns == {"Codigo unico", "Precio Coste", "Tienda"}

DashColumns == JoinColumns \cup {"P.V.P.", "Cantidad"}

DashValues ==
    [col \in DashColumns |->
        CASE col = "Codigo unico" -> {Str("A"), Str("B")}
          [] col = "Precio Coste" -> {Num(6), NA}
          [] col = "Tienda" -> {Str("MADRID")}
          [] col = "P.V.P." -> {Num(10)}
          [] OTHER -> {Num(3)}]

DashTables(maxRows) ==
    {t \in UNION {TablesOver(C \cup {"P.V.P.", "Cantidad"}, DashValues, maxRows) :
                    C \in SUBSET JoinColumns} : ~empty(t)}

\* the sales tables create_pvp_analysis is applied to
PvpColumns == {"P.V.P.", "Cantidad", "Beneficio"}

PvpValues ==
    [col \in PvpColumns |->
        CASE col = "P.V.P." -> {Num(0), Num(5), Num(10), Num(25), Num(50), Num(100),
                                Num(150), NA}
          [] col = "Cantidad" -> {Num(3), Num(-1)}
          [] OTHER -> {Num(7)}]

PvpTables(maxRows) ==
    UNION {TablesOver(C, PvpValues, maxRows) : C \in SUBSET PvpColumns}

(***************************************************************************)
(* Sales tables with store names in and around TIENDAS_EXTRANJERAS.        *)
(***************************************************************************)
TiendaColumns == {"Tienda", "Cantidad"}

TiendaValues ==
    [col \in TiendaColumns |->
        CASE col = "Tienda" ->
                {Str("TRUCCOONLINEB2C"), Str("I301COINBERGAMO(TRUCCO)"),
                 Str("truccoonlineb2c"), Str(" TRUCCOONLINEB2C"), Str("TRUCCOONLINE"),
                 Str("MADRID"), Str(""), NA}
          [] OTHER -> {Num(3)}]

TiendaTables(maxRows) ==
    UNION {TablesOver(C, TiendaValues, maxRows) : C \in SUBSET TiendaColumns}

(***************************************************************************)
(* Lists of size labels.                                                   *)
(***************************************************************************)
Example == <<"M", "38", "XL", "36", "U", "S", "Z">>

TallaLists(maxLen) == UNION {[1..n -> Tallas] : n \in 0..maxLen} \cup {Example}

(***************************************************************************)
(* The sales tables the aggregates are applied to: tables of no row or one *)
(* row over every set of the columns the aggregates read, tables of        *)
(* quantities and margins of both signs, tables of families, and tables of *)
(* eleven families.                                                        *)
(***************************************************************************)
AggColumns ==
    {"Cantidad", "Beneficio", "Familia", "Es_Online", "Mes", "Talla", "Tienda", "P.V.P."}

AggValues ==
    [col \in AggColumns |->
        CASE col = "Cantidad" -> {Num(3)}
          [] col = "Beneficio" -> {Num(7)}
          [] col = "Familia" -> {Str("F01")}
          [] col = "Es_Online" -> {Bool(TRUE)}
          [] col = "Mes" -> {Num(4)}
          [] col = "Talla" -> {Str("M")}
          [] col = "Tienda" -> {Str("MADRID")}
          [] OTHER -> {Num(10)}]

\* a table with columns and no row has the id of an object of its own
SmallTables ==
    UNION {{DataFrame(C, r) : r \in UNION {[1..n -> RowsOver(C, AggValues)] : n \in 0..1}} :
             C \in SUBSET AggColumns}

KpiColumns == {"Cantidad", "Beneficio"}

CantidadValues == [col \in {"Cantidad"} |-> {Num(10), Num(-3), Num(7), Num(-5)}]

KpiValues ==
    [col \in KpiColumns |->
        CASE col = "Cantidad" -> {Num(-3), Num(7)}
          [] OTHER -> {Num(-10), Num(4)}]

KpiTables(maxRows) ==
    TablesOver({"Cantidad"}, CantidadValues, maxRows)
        \cup TablesOver(KpiColumns, KpiValues, maxRows)

FamiliaColumns == {"Familia", "Beneficio", "Cantidad"}

FamiliaValues ==
    [col \in FamiliaColumns |->
        CASE col = "Familia" -> {Str("F01"), Str("F02"), NA}
          [] col = "Beneficio" -> {Num(2), Num(4)}
          [] OTHER -> {Num(3)}]

FamiliaTables(maxRows) == TablesOver(FamiliaColumns, FamiliaValues, maxRows)

\* one row for each of the eleven families, with the margins given
ElevenFamilies(margins) ==
    DataFrame(FamiliaColumns,
              [i \in 1..Len(Familias) |->
                  [col \in FamiliaColumns |->
                      CASE col = "Familia" -> Str(Familias[i])
                        [] col = "Beneficio" -> Num(margins[i])
                        [] OTHER -> Num(1)]])

LongTables ==
    {ElevenFamilies(<<1, 2, 3, 4, 5, 6, 7, 8, 9, 10, 11>>),
     ElevenFamilies(<<22, 20, 18, 16, 14, 12, 10, 8, 6, 4, 2>>),
     ElevenFamilies(<<20, 19, 18, 17, 16, 15, 14, 13, 12, 5, 5>>)}

AggTables(maxRows) ==
    SmallTables \cup KpiTables(maxRows) \cup FamiliaTables(maxRows) \cup LongTables

(***************************************************************************)
(* The uploads of a session: content that is no workbook, a workbook       *)
(* without its sheets, and workbooks whose sales sheet has the two filter  *)
(* columns or not and whose products sheet has one row or none.            *)
(***************************************************************************)
FilterColumns == {"Temporada", "Descripcion Familia"}

FilterValues ==
    [col \in FilterColumns |->
        CASE col = "Temporada" -> {Str(Temporadas[i]) : i \in 1..Len(Temporadas)}
          [] OTHER -> {Str(DescripcionesFamilia[i]) : i \in 1..Len(DescripcionesFamilia)}]

SalesSheets(maxRows) ==
    UNION {TablesOver(C, FilterValues, maxRows) : C \in SUBSET FilterColumns}

ProductSheets ==
    {EmptyFrame,
     DataFrame(ProductosColumns,
               <<[c \in ProductosColumns |->
                     IF c = "Codigo unico" THEN Str("A") ELSE Num(4)]>>)}

Uploads(maxRows) ==
    {Upload("corrupt", EmptyFrame, EmptyFrame, EmptyFrame),
     Upload("no_sheet", EmptyFrame, EmptyFrame, EmptyFrame)}
        \cup {Upload("workbook", p, EmptyFrame, v) :
                 p \in ProductSheets, v \in SalesSheets(maxRows)}

Filenames == {"ventas.xlsx", "otro.xlsx"}

NoContent == Content("none", "", NoData)

NoSheet == sheet = EmptyFrame /\ typed = EmptyFrame /\ loaded = EmptyFrame

NoDashboard ==
    /\ df_productos = EmptyFrame
    /\ seccion = ""
    /\ joined = EmptyFrame
    /\ content = NoContent

Null == [ret |-> EmptyFrame, exc |-> "null", arg |-> EmptyFrame]

\* the upload that filled the store: none yet
NoUpload == [contents |-> None, filename |-> ""]

NoSession ==
    /\ data_store = NoStore
    /\ last_upload = NoUpload
    /\ upload_status = ""
    /\ nav = "analisis"
    /\ season_filter = "all"
    /\ family_filter = "all"
    /\ filter_options = NoOptions

NoSizes == tallas = <<>> /\ ordenadas = <<>>

(***************************************************************************)
(* SpecPre: preprocess_ventas_data applied to a sales table, and then to   *)
(* its own result.                                                         *)
(***************************************************************************)
InitPre ==
    /\ pc = "start"
    /\ NoSession
    /\ NoSizes
    /\ df_ventas \in VentasTables(MaxRows)
    /\ given = df_ventas
    /\ pre = Null
    /\ pre2 = Null
    /\ NoSheet
    /\ NoDashboard

Preprocess ==
    /\ pc = "start"
    /\ \E o \in {preprocess_ventas_data(df_ventas)} :
          /\ pre' = o
          /\ df_ventas' = o.arg
    /\ pc' = "once"
    /\ UNCHANGED <<given, pre2, loadVars, dashVars, content, sessVars, sortVars>>

PreprocessAgain ==
    /\ pc = "once"
    /\ pre2' = preprocess_ventas_data(pre.ret)
    /\ pc' = "twice"
    /\ UNCHANGED <<df_ventas, given, pre, loadVars, dashVars, content, sessVars, sortVars>>

NextPre == Preprocess \/ PreprocessAgain

SpecPre == InitPre /\ [][NextPre]_vars

(***************************************************************************)
(* SpecOnline: preprocess_ventas_data applied to tables of store names.    *)
(***************************************************************************)
InitOnline ==
    /\ pc = "start"
    /\ NoSession
    /\ NoSizes
    /\ df_ventas \in TiendaTables(MaxRows)
    /\ given = df_ventas
    /\ pre = Null
    /\ pre2 = Null
    /\ NoSheet
    /\ NoDashboard

SpecOnline == InitOnline /\ [][NextPre]_vars

(***************************************************************************)
(* SpecSort: a list of size labels sorted with custom_sort_key.            *)
(***************************************************************************)
InitSort ==
    /\ pc = "start"
    /\ tallas \in TallaLists(MaxTallas)
    /\ ordenadas = <<>>
    /\ NoSession
    /\ df_ventas = EmptyFrame
    /\ given = EmptyFrame
    /\ pre = Null
    /\ pre2 = Null
    /\ NoSheet
    /\ NoDashboard

Sort ==
    /\ pc = "start"
    /\ ordenadas' = sorted(tallas)
    /\ pc' = "sorted"
    /\ UNCHANGED <<tallas, df_ventas, preVars, loadVars, dashVars, content, sessVars>>

NextSort == Sort

SpecSort == InitSort /\ [][NextSort]_vars

(***************************************************************************)
(* SpecLoad: the cleaning loop of load_excel_data applied to a parsed      *)
(* sheet.                                                                  *)
(***************************************************************************)
InitLoad ==
    /\ pc = "parsed"
    /\ NoSession
    /\ NoSizes
    /\ sheet \in SheetTables(MaxSheetRows)
    /\ typed = EmptyFrame
    /\ loaded = EmptyFrame
    /\ df_ventas = EmptyFrame
    /\ given = EmptyFrame
    /\ pre = Null
    /\ pre2 = Null
    /\ NoDashboard

CleanSheet ==
    /\ pc = "parsed"
    /\ \E t \in {InferColumns(sheet, sheet.cols)} :
          /\ typed' = t
          /\ loaded' = dropna_columns(dropna_rows(t))
    /\ pc' = "loaded"
    /\ UNCHANGED <<sheet, df_ventas, preVars, dashVars, content, sessVars, sortVars>>

NextLoad == CleanSheet

SpecLoad == InitLoad /\ [][NextLoad]_vars

(***************************************************************************)
(* SpecDash: create_dashboard_content called with a sales table, a         *)
(* products table and a section.                                           *)
(***************************************************************************)
InitDash ==
    /\ pc = "start"
    /\ NoSession
    /\ NoSizes
    /\ df_ventas \in DashTables(MaxRows)
    /\ given = df_ventas
    /\ df_productos \in ProductosTables(MaxRows)
    /\ seccion \in Secciones \cup {"otra"}
    /\ pre = Null
    /\ pre2 = Null
    /\ joined = EmptyFrame
    /\ content = NoContent
    /\ NoSheet

CreateDashboardContent ==
    /\ pc = "start"
    /\ \E r \in {create_dashboard_content(df_productos, EmptyFrame, df_ventas, seccion)} :
          /\ pre' = r.pre
          /\ df_ventas' = r.pre.arg
          /\ joined' = r.df
          /\ content' = r.content
    /\ pc' = "done"
    /\ UNCHANGED <<given, pre2, df_productos, seccion, loadVars, sessVars, sortVars>>

NextDash == CreateDashboardContent

SpecDash == InitDash /\ [][NextDash]_vars

(***************************************************************************)
(* SpecPvp: create_pvp_analysis called with a sales table.                 *)
(***************************************************************************)
InitPvp ==
    /\ pc = "start"
    /\ NoSession
    /\ NoSizes
    /\ df_ventas \in PvpTables(MaxRows)
    /\ given = df_ventas
    /\ pre = Null
    /\ pre2 = Null
    /\ df_productos = EmptyFrame
    /\ seccion = "pvp"
    /\ joined = EmptyFrame
    /\ content = NoContent
    /\ NoSheet

PvpAnalysis ==
    /\ pc = "start"
    /\ \E r \in {create_pvp_analysis(df_ventas)} :
          /\ df_ventas' = r.df
          /\ content' = r.content
    /\ pc' = "done"
    /\ UNCHANGED <<preVars, dashVars, loadVars, sessVars, sortVars>>

NextPvp == PvpAnalysis

SpecPvp == InitPvp /\ [][NextPvp]_vars

(***************************************************************************)
(* SpecAgg: one of the aggregates applied to a sales table.                *)
(***************************************************************************)
InitAgg ==
    /\ pc = "start"
    /\ df_ventas \in AggTables(MaxAggRows)
    /\ given = df_ventas
    /\ pre = Null
    /\ pre2 = Null
    /\ df_productos = EmptyFrame
    /\ seccion = ""
    /\ joined = EmptyFrame
    /\ content = NoContent
    /\ NoSheet
    /\ NoSession
    /\ NoSizes

aggUnchanged == <<df_ventas, preVars, dashVars, loadVars, sessVars, sortVars>>

KpiCards ==
    /\ pc = "start"
    /\ content' = create_kpi_cards(df_ventas)
    /\ pc' = "kpis"
    /\ UNCHANGED aggUnchanged

MonthlySalesChart ==
    /\ pc = "start"
    /\ content' = create_monthly_sales_chart(df_ventas)
    /\ pc' = "mensual"
    /\ UNCHANGED aggUnchanged

SizeAnalysisChart ==
    /\ pc = "start"
    /\ content' = create_size_analysis_chart(df_ventas)
    /\ pc' = "tallas"
    /\ UNCHANGED aggUnchanged

TopProductsTable ==
    /\ pc = "start"
    /\ content' \in create_top_products_table(df_ventas)
    /\ pc' = "top_productos"
    /\ UNCHANGED aggUnchanged

StorePerformanceChart ==
    /\ pc = "start"
    /\ content' = create_store_performance_chart(df_ventas)
    /\ pc' = "tiendas"
    /\ UNCHANGED aggUnchanged

ProductAnalysis ==
    /\ pc = "start"
    /\ \E top \in create_top_products_table(df_ventas) :
          content' = create_product_analysis(df_ventas, top)
    /\ pc' = "producto"
    /\ UNCHANGED aggUnchanged

NextAgg ==
    \/ KpiCards
    \/ MonthlySalesChart
    \/ SizeAnalysisChart
    \/ TopProductsTable
    \/ StorePerformanceChart
    \/ ProductAnalysis
    \/ PvpAnalysis

SpecAgg == InitAgg /\ [][NextAgg]_vars

(***************************************************************************)
(* SpecSession: a session of the application: uploads, and changes of the  *)
(* filters, of the section and of the navigation, each followed by the     *)
(* callbacks that its output triggers.                                     *)
(***************************************************************************)
InitSession ==
    /\ pc = "session"
    /\ data_store = NoStore
    /\ last_upload = NoUpload
    /\ upload_status = ""
    /\ nav = "analisis"
    /\ seccion = "resumen"
    /\ season_filter = "all"
    /\ family_filter = "all"
    /\ filter_options = update_filters(NoStore)
    /\ content = update_main_content("analisis", NoStore, "resumen", "all", "all")
    /\ df_ventas = EmptyFrame
    /\ given = EmptyFrame
    /\ pre = Null
    /\ pre2 = Null
    /\ df_productos = EmptyFrame
    /\ joined = EmptyFrame
    /\ NoSheet
    /\ NoSizes

sessUnchanged == <<pc, preVars, loadVars, df_productos, joined, sortVars>>

\* handle_file_upload, then update_filters and update_main_content, which
\* have data-store as their input
HandleFileUpload ==
    /\ \E contents \in Uploads(MaxRows), filename \in Filenames :
          \E r \in {handle_file_upload(contents, filename)} :
              /\ data_store' = r.data
              /\ upload_status' = r.status
              /\ last_upload' = [contents |-> contents, filename |-> filename]
              /\ filter_options' = update_filters(r.data)
              /\ content' = update_main_content(nav, r.data, seccion, season_filter,
                                                 family_filter)
              /\ df_ventas' = local_df_ventas(nav, r.data, season_filter, family_filter)
    /\ UNCHANGED <<nav, seccion, season_filter, family_filter, sessUnchanged>>

\* the user picks one of the options of season-filter
SelectSeason ==
    /\ \E i \in 1..Len(filter_options.season) :
          /\ season_filter' = filter_options.season[i]
          /\ content' = update_main_content(nav, data_store, seccion,
                                             filter_options.season[i], family_filter)
          /\ df_ventas' = local_df_ventas(nav, data_store, filter_options.season[i],
                                          family_filter)
    /\ UNCHANGED <<data_store, last_upload, upload_status, nav, seccion, family_filter,
                   filter_options, sessUnchanged>>

\* the user picks one of the options of family-filter
SelectFamily ==
    /\ \E i \in 1..Len(filter_options.family) :
          /\ family_filter' = filter_options.family[i]
          /\ content' = update_main_content(nav, data_store, seccion, season_filter,
                                             filter_options.family[i])
          /\ df_ventas' = local_df_ventas(nav, data_store, season_filter,
                                          filter_options.family[i])
    /\ UNCHANGED <<data_store, last_upload, upload_status, nav, seccion, season_filter,
                   filter_options, sessUnchanged>>

\* the user picks a section
SelectSection ==
    /\ \E section \in {"resumen", "pvp"} :
          /\ seccion' = section
          /\ content' = update_main_content(nav, data_store, section, season_filter,
                                             family_filter)
          /\ df_ventas' = local_df_ventas(nav, data_store, season_filter, family_filter)
    /\ UNCHANGED <<data_store, last_upload, upload_status, nav, season_filter,
                   family_filter, filter_options, sessUnchanged>>

\* the user switches between analysis and prediction
Navigate ==
    /\ \E nav_value \in {"analisis", "prediccion"} :
          /\ nav' = nav_value
          /\ content' = update_main_content(nav_value, data_store, seccion, season_filter,
                                             family_filter)
          /\ df_ventas' = local_df_ventas(nav_value, data_store, season_filter,
                                          family_filter)
    /\ UNCHANGED <<data_store, last_upload, upload_status, seccion, season_filter,
                   family_filter, filter_options, sessUnchanged>>

NextSession ==
    \/ HandleFileUpload
    \/ SelectSeason
    \/ SelectFamily
    \/ SelectSection
    \/ Navigate

SpecSession == InitSession /\ [][NextSession]_vars

(***************************************************************************)
(* Claims about preprocess_ventas_data, checked under SpecPre.             *)
(***************************************************************************)

\* C2: preprocess_ventas_data is idempotent and pure: applied to its own
\* result it returns that result again, and the caller's table holds after
\* each call what it held before it.
C2_IdempotentAndPure ==
    /\ pc \in {"once", "twice"} => Frame(df_ventas) = Frame(given)
    /\ pc = "twice" =>
          /\ Frame(pre2.ret) = Frame(pre.ret)
          /\ Frame(pre2.arg) = Frame(pre.ret)

\* a table with a text date, a store and no margin went through both calls
\* and came out changed by the first
C2_Witness ==
    /\ pc = "twice"
    /\ pre.exc = "none"
    /\ {"Fecha Documento", "Tienda", "P.V.P.", "Cantidad"} \subseteq given.cols
    /\ "Beneficio" \notin given.cols
    /\ Frame(pre.ret) # Frame(given)
    /\ Len(given.rows) = MaxRows

\* the cost column of the given table holds numbers or nothing, no text
CosteNumerico ==
    "Precio Coste" \in given.cols =>
        \A i \in 1..Len(given.rows) : given.rows[i]["Precio Coste"].k # "str"

\* C6: with list price and quantity present, the margin of every row is
\* 0.5 x price x quantity when the table has neither margin nor cost,
\* (price - cost) x quantity when it has a cost and no margin, and the
\* margin column is left as it is when the table has one.  (Half euros.)
C6_AsClaimed ==
    (pc # "start" /\ ~empty(given) /\ CosteNumerico
        /\ {"P.V.P.", "Cantidad"} \subseteq given.cols) =>
    /\ "Beneficio" \in pre.ret.cols
    /\ Len(pre.ret.rows) = Len(given.rows)
    /\ \A i \in 1..Len(given.rows) :
          LET row == given.rows[i]
              margin == pre.ret.rows[i]["Beneficio"]
          IN IF "Beneficio" \in given.cols THEN margin = row["Beneficio"]
             ELSE IF "Precio Coste" \in given.cols
             THEN IF isna(row["P.V.P."]) \/ isna(row["Precio Coste"])
                  THEN isna(margin)
                  ELSE margin = Num(2 * (row["P.V.P."].n - row["Precio Coste"].n)
                                      * row["Cantidad"].n)
             ELSE IF isna(row["P.V.P."])
                  THEN isna(margin)
                  ELSE margin = Num(row["P.V.P."].n * row["Cantidad"].n)

\* C7: a derived column is computed exactly when its own prerequisite
\* columns are in the table, whatever other columns are missing, and no
\* exception is raised inside the function.
C7_AsClaimed ==
    (pc # "start" /\ ~empty(given) /\ CosteNumerico) =>
    /\ pre.exc = "none"
    /\ "Es_Online" \in pre.ret.cols <=> "Tienda" \in given.cols
    /\ {"Ano", "Mes", "Mes_Nombre"} \subseteq pre.ret.cols
          <=> "Fecha Documento" \in given.cols
    /\ {"P.V.P.", "Cantidad"} \subseteq given.cols => "Beneficio" \in pre.ret.cols

\* C8: when a step inside preprocess_ventas_data raises, or the table is
\* empty, the function returns the table it was given, with no derived
\* column and no converted date.
C8_DegradesToInput ==
    (pc # "start" /\ (pre.exc # "none" \/ empty(given))) =>
    /\ Frame(pre.ret) = Frame(given)
    /\ pre.ret.id = given.id

\* the margin step raised after the dates had been converted and the date
\* parts and the online flag added to the working copy
C8_Witness ==
    /\ pc = "once"
    /\ pre.exc = "TypeError"
    /\ {"Fecha Documento", "Tienda"} \subseteq given.cols
    /\ Frame(pre.ret) = Frame(given)

(***************************************************************************)
(* Claims about load_excel_data, checked under SpecLoad.                   *)
(***************************************************************************)
NonMissing(df, col) == {i \in 1..Len(df.rows) : ~isna(df.rows[i][col])}

ParsesAsNumber(df, col) ==
    {i \in 1..Len(df.rows) : df.rows[i][col] \in {Num(3), Num(38), Str("3"), Str("38")}}

IsNumericColumn(df, col) == \A c \in Column(df, col) : c.k \in {"num", "na"}

IsTextColumn(df, col) == \A c \in Column(df, col) : c.k = "str"

\* C9: a column with no declared type that holds text becomes numeric if
\* and only if at least 80% of its non-missing values parse as numbers;
\* otherwise it stays text, its missing values the empty text.
C9_AsClaimed ==
    pc = "loaded" =>
        \A col \in sheet.cols :
            dtype_object(sheet, col) =>
                IF 5 * Cardinality(ParsesAsNumber(sheet, col))
                      >= 4 * Cardinality(NonMissing(sheet, col))
                THEN IsNumericColumn(typed, col)
                ELSE /\ IsTextColumn(typed, col)
                     /\ \A i \in 1..Len(sheet.rows) :
                           isna(sheet.rows[i][col]) => typed.rows[i][col] = Str("")

\* a value is missing in a returned table when it is NaN or the empty text
\* a missing value of a text column is rendered as
Missing(c) == isna(c) \/ c = Str("")

\* C10: a table returned by load_excel_data has no row and no column whose
\* values are all missing.
C10_AsClaimed ==
    pc = "loaded" =>
        /\ \A i \in 1..Len(loaded.rows) : \E c \in loaded.cols : ~Missing(loaded.rows[i][c])
        /\ \A c \in loaded.cols : \E i \in 1..Len(loaded.rows) : ~Missing(loaded.rows[i][c])

\* a column of five values, four of them numbers typed as text and one a
\* word, stayed text
C9_Witness ==
    /\ pc = "loaded"
    /\ "Talla" \in sheet.cols
    /\ Len(sheet.rows) = 5
    /\ Cardinality(ParsesAsNumber(sheet, "Talla")) = 4
    /\ Cardinality(NonMissing(sheet, "Talla")) = 5
    /\ IsTextColumn(typed, "Talla")

(***************************************************************************)
(* Claims about create_dashboard_content, checked under SpecDash.          *)
(***************************************************************************)

\* C3: the handler ends in a fragment (components or an alert), never in
\* an exception that leaves it.
C3_AsClaimed == pc = "done" => content.kind \in {"components", "alert"}

\* the merge block ran to its end: both tables have the product code
Joined ==
    /\ pc = "done"
    /\ content.kind # "exception"
    /\ "Codigo unico" \in pre.ret.cols
    /\ "Codigo unico" \in df_productos.cols

\* the sales table going into the join, and its cost for row i
SalesRows == pre.ret.rows

SalesCost(i) ==
    IF "Precio Coste" \in pre.ret.cols THEN SalesRows[i]["Precio Coste"] ELSE NA

\* the Products rows with the product code of a row
ProductsOf(row) ==
    {k \in 1..Len(df_productos.rows) :
        df_productos.rows[k]["Codigo unico"] = row["Codigo unico"]}

\* row j of the joined table is sales row i, but for its cost
FromSalesRow(j, i) ==
    \A c \in pre.ret.cols \ {"Precio Coste"} : joined.rows[j][c] = SalesRows[i][c]

\* C4 as claimed: a joined row whose code matches a Products row has the
\* cost of a matching Products row, and a row whose code matches none has
\* the sales sheet's own cost.
C4_AsClaimed ==
    Joined =>
        \A j \in 1..Len(joined.rows) :
            \E i \in 1..Len(SalesRows) :
                /\ FromSalesRow(j, i)
                /\ IF ProductsOf(SalesRows[i]) = {}
                   THEN joined.rows[j]["Precio Coste"] = SalesCost(i)
                   ELSE \E k \in ProductsOf(SalesRows[i]) :
                           joined.rows[j]["Precio Coste"]
                               = df_productos.rows[k]["Precio Coste"]

\* the cost a sales row gets from a matching Products row
CostFrom(i, k) ==
    IF isna(df_productos.rows[k]["Precio Coste"]) THEN SalesCost(i)
    ELSE df_productos.rows[k]["Precio Coste"]

\* C4 amended: a sales row joined with a Products row of its code has that
\* row's cost when it is not missing; the sales sheet's own cost is the
\* row's cost when no Products row has its code or when the cost of the
\* Products row it is joined with is missing.  Every joined row is such a
\* row, and every sales row appears with each Products row of its code.
C4_CostAfterJoin ==
    Joined =>
        /\ \A j \in 1..Len(joined.rows) :
              \E i \in 1..Len(SalesRows) :
                  /\ FromSalesRow(j, i)
                  /\ IF ProductsOf(SalesRows[i]) = {}
                     THEN joined.rows[j]["Precio Coste"] = SalesCost(i)
                     ELSE \E k \in ProductsOf(SalesRows[i]) :
                             joined.rows[j]["Precio Coste"] = CostFrom(i, k)
        /\ \A i \in 1..Len(SalesRows) :
              \A k \in ProductsOf(SalesRows[i]) :
                  \E j \in 1..Len(joined.rows) :
                      /\ FromSalesRow(j, i)
                      /\ joined.rows[j]["Precio Coste"] = CostFrom(i, k)

\* a sales row with a cost of its own was joined with a Products row whose
\* cost differs, and another Products row has a missing cost
C4_Witness ==
    /\ Joined
    /\ "Precio Coste" \in pre.ret.cols
    /\ \E i \in 1..Len(SalesRows) :
          /\ ~isna(SalesCost(i))
          /\ \E k \in ProductsOf(SalesRows[i]) :
                /\ ~isna(df_productos.rows[k]["Precio Coste"])
                /\ df_productos.rows[k]["Precio Coste"] # SalesCost(i)
    /\ \E k \in 1..Len(df_productos.rows) : isna(df_productos.rows[k]["Precio Coste"])

\* C5: every sales row that goes into the join is in the joined table,
\* whether or not a Products row has its code.
C5_LeftOuter ==
    Joined =>
        /\ Len(joined.rows) >= Len(SalesRows)
        /\ \A i \in 1..Len(SalesRows) : \E j \in 1..Len(joined.rows) : FromSalesRow(j, i)

\* the join ran with a sales row whose code no Products row has, and with
\* a sales row whose code one has
C5_Witness ==
    /\ Joined
    /\ Len(df_productos.rows) > 0
    /\ \E i \in 1..Len(SalesRows) : ProductsOf(SalesRows[i]) = {}
    /\ \E i \in 1..Len(SalesRows) : ProductsOf(SalesRows[i]) # {}

(***************************************************************************)
(* Claims about create_pvp_analysis, checked under SpecPvp.                *)
(***************************************************************************)
\* the band of a price when a band holds its left edge and not its right one
BandLeftInclusive(n) ==
    IF n < 10 THEN "0-10"
    ELSE IF n < 25 THEN "10-25"
    ELSE IF n < 50 THEN "25-50"
    ELSE IF n < 100 THEN "50-100"
    ELSE "100+"

\* C1: every row with a list price p >= 0 is counted in the band [0,10),
\* [10,25), [25,50), [50,100) or [100,inf) that holds p, so that each
\* band's quantity is the sum over the rows whose price is in it.
C1_AsClaimed ==
    (pc = "done" /\ content.kind = "components") =>
        /\ \A i \in 1..Len(df_ventas.rows) :
              LET row == df_ventas.rows[i]
              IN (row["P.V.P."].k = "num" /\ row["P.V.P."].n >= 0) =>
                     row["Rango_Precio"] = Str(BandLeftInclusive(row["P.V.P."].n))
        /\ \A l \in DOMAIN content.data :
              LET In(row) == row["P.V.P."].k = "num" /\ row["P.V.P."].n >= 0
                             /\ BandLeftInclusive(row["P.V.P."].n) = l
              IN content.data[l].Cantidad = SumOf(SelectSeq(df_ventas.rows, In), "Cantidad")

\* a row with list price exactly 10 went through the histogram and was
\* counted in the band labelled 0-10
C1_Witness ==
    /\ pc = "done"
    /\ content.kind = "components"
    /\ \E i \in 1..Len(df_ventas.rows) :
          /\ df_ventas.rows[i]["P.V.P."] = Num(10)
          /\ df_ventas.rows[i]["Rango_Precio"] = Str("0-10")

(***************************************************************************)
(* Claims about Es_Online, checked under SpecOnline.                       *)
(***************************************************************************)
NearMisses ==
    {Str("truccoonlineb2c"), Str(" TRUCCOONLINEB2C"), Str("TRUCCOONLINE"), Str("MADRID"),
     Str(""), NA}

\* C16: Es_Online of a row is true if and only if the row's store name is
\* exactly one of TIENDAS_EXTRANJERAS; it is false for a name that differs
\* in case, in surrounding blanks or is a prefix, and for a missing name.
C16_ExactMembership ==
    (pc # "start" /\ ~empty(given) /\ "Tienda" \in given.cols) =>
        /\ "Es_Online" \in pre.ret.cols
        /\ Len(pre.ret.rows) = Len(given.rows)
        /\ \A i \in 1..Len(given.rows) :
              LET tienda == given.rows[i]["Tienda"]
                  flag == pre.ret.rows[i]["Es_Online"]
              IN /\ flag \in {Bool(TRUE), Bool(FALSE)}
                 /\ flag = Bool(TRUE) <=>
                        \E t \in TIENDAS_EXTRANJERAS : tienda = Str(t)
                 /\ tienda \in NearMisses => flag = Bool(FALSE)

\* a table with a listed store and a store that differs from it in case
\* only got the flag on the first and not on the second
C16_Witness ==
    /\ pc = "once"
    /\ Len(given.rows) = 2
    /\ "Tienda" \in given.cols
    /\ given.rows[1]["Tienda"] = Str("TRUCCOONLINEB2C")
    /\ given.rows[2]["Tienda"] = Str("truccoonlineb2c")
    /\ pre.ret.rows[1]["Es_Online"] = Bool(TRUE)
    /\ pre.ret.rows[2]["Es_Online"] = Bool(FALSE)

(***************************************************************************)
(* Claims about custom_sort_key, checked under SpecSort.                   *)
(***************************************************************************)
\* the class of a label: 0 all digits, 1 letter size, 2 one size, 3 other
ClassOf(talla) ==
    LET t == upper_strip(talla)
    IN IF t \in {"36", "38", "9", "100"} THEN 0
       ELSE IF t \in {"XS", "S", "M", "L", "XL", "XXL"} THEN 1
       ELSE IF t \in {"U", "UNICA", "TU"} THEN 2
       ELSE 3

LetterRank(talla) ==
    LET t == upper_strip(talla)
    IN CASE t = "XS" -> 1 [] t = "S" -> 2 [] t = "M" -> 3
         [] t = "L" -> 4 [] t = "XL" -> 5 [] t = "XXL" -> 6

\* how often a label is in a list
Count(lst, talla) == Cardinality({i \in 1..Len(lst) : lst[i] = talla})

\* C14: the sorted list holds the labels of the list given; the all-digit
\* labels come first by ascending number, then the letter sizes in the
\* order XS, S, M, L, XL, XXL, then the one-size labels, then the other
\* labels alphabetically; the list M, 38, XL, 36, U, S, Z comes out as
\* 36, 38, S, M, XL, U, Z.
C14_SizeOrder ==
    pc = "sorted" =>
        /\ Len(ordenadas) = Len(tallas)
        /\ \A t \in Tallas : Count(ordenadas, t) = Count(tallas, t)
        /\ \A i, j \in 1..Len(ordenadas) :
              i < j =>
                LET a == ordenadas[i]
                    b == ordenadas[j]
                IN /\ ClassOf(a) <= ClassOf(b)
                   /\ ClassOf(a) = 0 /\ ClassOf(b) = 0 => int(a) <= int(b)
                   /\ ClassOf(a) = 1 /\ ClassOf(b) = 1 => LetterRank(a) <= LetterRank(b)
                   /\ ClassOf(a) = 3 /\ ClassOf(b) = 3 =>
                         ~str_lt(upper_strip(b), upper_strip(a))
        /\ tallas = Example => ordenadas = <<"36", "38", "S", "M", "XL", "U", "Z">>

\* the example list was sorted
C14_Witness ==
    /\ pc = "sorted"
    /\ tallas = Example
    /\ ordenadas = <<"36", "38", "S", "M", "XL", "U", "Z">>

(***************************************************************************)
(* Claims about the aggregates, checked under SpecAgg.                     *)
(***************************************************************************)
\* the rows of the given table with a negative quantity
NegativeRows ==
    IF "Cantidad" \in given.cols
    THEN {i \in 1..Len(given.rows) :
            given.rows[i]["Cantidad"].k = "num" /\ given.rows[i]["Cantidad"].n < 0}
    ELSE {}

\* the units returned in rows: each negative quantity without its sign
RECURSIVE UnitsReturned(_)
UnitsReturned(rows) ==
    IF rows = <<>> THEN 0
    ELSE (IF Head(rows)["Cantidad"].k = "num" /\ Head(rows)["Cantidad"].n < 0
          THEN 0 - Head(rows)["Cantidad"].n ELSE 0)
         + UnitsReturned(Tail(rows))

ReturnsCards ==
    {i \in 1..Len(content.data) : content.data[i].header = "Analisis de Devoluciones"}

Quantities == [i \in 1..Len(given.rows) |-> given.rows[i]["Cantidad"]]

RECURSIVE AbsoluteMarginOfReturns(_)
AbsoluteMarginOfReturns(rows) ==
    IF rows = <<>> THEN 0
    ELSE (IF Head(rows)["Cantidad"].k = "num" /\ Head(rows)["Cantidad"].n < 0
             /\ Head(rows)["Beneficio"].k = "num"
          THEN abs(Head(rows)["Beneficio"].n) ELSE 0)
         + AbsoluteMarginOfReturns(Tail(rows))

\* C13: the returns figure of calculate_basic_kpis is the sum, over the
\* rows of negative quantity, of the absolute value of the row's margin,
\* and 0 when there is no such row.
C13_AsClaimed ==
    pc = "kpis" =>
        content.data.total_devoluciones_dinero =
            IF {"Cantidad", "Beneficio"} \subseteq given.cols
            THEN AbsoluteMarginOfReturns(given.rows) ELSE 0

\* two return rows with margins of opposite sign went through the KPIs
C13_Witness ==
    /\ pc = "kpis"
    /\ given.cols = {"Cantidad", "Beneficio"}
    /\ Len(given.rows) = 2
    /\ given.rows[1] = [c \in KpiColumns |-> IF c = "Cantidad" THEN Num(-3) ELSE Num(-10)]
    /\ given.rows[2] = [c \in KpiColumns |-> IF c = "Cantidad" THEN Num(-3) ELSE Num(4)]
    /\ content.data.total_devoluciones_dinero = 6

\* the place of a family in the order of the groups
GroupPlace(key) == CHOOSE i \in 1..Len(Familias) : Str(Familias[i]) = key

\* C15: the ranking holds at most 10 families, each with the sums of its
\* rows, by descending sum of margin, and families of equal sums are in
\* the order of their groups.
C15_AsClaimed ==
    (pc = "top_productos" /\ content.kind = "table") =>
        LET top == content.data
        IN /\ Len(top) <= 10
           /\ \A i \in 1..Len(top) : top[i] = GroupSums(given, "Familia", top[i].key)
           /\ \A i, j \in 1..Len(top) :
                 i < j =>
                    /\ top[i].Beneficio >= top[j].Beneficio
                    /\ top[i].Beneficio = top[j].Beneficio =>
                          GroupPlace(top[i].key) < GroupPlace(top[j].key)

\* eleven families were ranked and ten of them are in the table
C15_Witness ==
    /\ pc = "top_productos"
    /\ content.kind = "table"
    /\ Len(given.rows) = 11
    /\ Len(content.data) = 10

ZeroOrPlaceholder(c) ==
    \/ c.kind = "alert"
    \/ c.kind = "graph" /\ c.data = {}
    \/ c.kind = "table" /\ c.data = <<>>

\* C17: for a sales table of no row each aggregate returns totals of zero,
\* a chart or table of nothing, or a placeholder, and none raises.
C17_ZeroRows ==
    (pc # "start" /\ Len(given.rows) = 0) =>
        CASE pc = "kpis" ->
                /\ content.kind = "components"
                /\ \A f \in DOMAIN content.data : content.data[f] = 0
          [] pc \in {"mensual", "tallas", "tiendas", "top_productos"} ->
                ZeroOrPlaceholder(content)
          [] pc = "producto" ->
                /\ content.kind = "components"
                /\ \A i \in 1..Len(content.data) :
                      /\ content.data[i].header = "Analisis de Productos y Rentabilidad"
                      /\ ZeroOrPlaceholder(content.data[i].body)
          [] pc = "done" ->
                \/ content.kind = "alert"
                \/ /\ content.kind = "components"
                   /\ \A l \in DOMAIN content.data :
                         content.data[l] = [Cantidad |-> 0, Beneficio |-> 0]

\* a table with every column and no row went through the KPIs
C17_Witness ==
    /\ pc = "kpis"
    /\ given.cols = AggColumns
    /\ Len(given.rows) = 0
    /\ content.data.total_ventas_dinero = 0

(***************************************************************************)
(* Claims about the session, checked under SpecSession.                    *)
(***************************************************************************)
\* a workbook whose three sheets are empty
EmptyWorkbook == Upload("workbook", EmptyFrame, EmptyFrame, EmptyFrame)

\* C11: when the upload does not parse, load_excel_data returns three
\* empty tables and raises nothing; the store then holds three empty lists
\* of records and the filename, and the store, the status, the filter
\* options and the page are what the upload of an empty workbook under
\* that name gives.
C11_FailureLooksEmpty ==
    last_upload.contents.kind \in {"corrupt", "no_sheet"} =>
        /\ \A t \in {"productos", "traspasos", "ventas"} :
              load_excel_data(last_upload.contents)[t] = EmptyFrame
        /\ data_store = [set |-> TRUE, productos |-> <<>>, traspasos |-> <<>>,
                         ventas |-> <<>>, filename |-> last_upload.filename]
        /\ handle_file_upload(EmptyWorkbook, last_upload.filename)
              = [data |-> data_store, status |-> upload_status]
        /\ filter_options = update_filters(
              handle_file_upload(EmptyWorkbook, last_upload.filename).data)
        /\ content = update_main_content(nav,
              handle_file_upload(EmptyWorkbook, last_upload.filename).data,
              seccion, season_filter, family_filter)

\* content that is no workbook was uploaded after a workbook with sales
\* (a season of it is still selected), and the store was filled
C11_Witness ==
    /\ last_upload.contents.kind = "corrupt"
    /\ season_filter = "V24"
    /\ data_store.set
    /\ data_store.ventas = <<>>
    /\ data_store.filename = "otro.xlsx"
    /\ upload_status = "cargado correctamente"

\* C18: the store holds the tables of the most recent upload, all of their
\* rows and no row of an earlier upload, under the name of that upload,
\* whatever filters, sections and pages were chosen before and since.
C18_LastUploadWins ==
    IF last_upload = NoUpload THEN data_store = NoStore
    ELSE /\ data_store.set
         /\ data_store.productos = load_excel_data(last_upload.contents).productos.rows
         /\ data_store.traspasos = load_excel_data(last_upload.contents).traspasos.rows
         /\ data_store.ventas = load_excel_data(last_upload.contents).ventas.rows
         /\ data_store.filename = last_upload.filename

\* a workbook of two sales rows of season I24 replaced one with season V24,
\* which is still selected, and the page was switched since
C18_Witness ==
    /\ last_upload.contents.kind = "workbook"
    /\ data_store.ventas = [i \in 1..2 |-> [c \in {"Temporada"} |-> Str("I24")]]
    /\ season_filter = "V24"
    /\ seccion = "pvp"
    /\ nav = "prediccion"

(***************************************************************************)
(* Claims about the margin and the row count after the cost join, checked  *)
(* under SpecDash.                                                         *)
(***************************************************************************)
\* the handler ran to its end
Completed == pc = "done" /\ content.kind # "exception"

\* the margin of a row of the sales sheet from the sheet's own columns
\* (the sales tables here have no margin column of their own)
OwnMargin(row) ==
    IF "Precio Coste" \in given.cols
    THEN IF isna(row["Precio Coste"]) THEN NA
         ELSE Num(2 * (row["P.V.P."].n - row["Precio Coste"].n) * row["Cantidad"].n)
    ELSE Num(row["P.V.P."].n * row["Cantidad"].n)

\* C19: the margin column of the table the aggregates get is the one
\* preprocess_ventas_data derived before the join: each row has the margin
\* of its sales row, computed from the sales sheet's own cost, price and
\* quantity (half of price x quantity when the sheet has no cost column),
\* whatever costs the Products table holds.
C19_MarginBeforeJoin ==
    Completed =>
        /\ Frame(pre.ret) = Frame(preprocess_ventas_data(given).ret)
        /\ "Beneficio" \in joined.cols <=> "Beneficio" \in pre.ret.cols
        /\ "Beneficio" \in joined.cols =>
              \A j \in 1..Len(joined.rows) :
                  \E i \in 1..Len(given.rows) :
                      /\ \A c \in given.cols \ {"Precio Coste"} :
                            joined.rows[j][c] = given.rows[i][c]
                      /\ joined.rows[j]["Beneficio"] = pre.ret.rows[i]["Beneficio"]
                      /\ joined.rows[j]["Beneficio"] = OwnMargin(given.rows[i])

\* a sales sheet without a cost column was joined with a Products table
\* that has the cost of its product: the row has that cost and the margin
\* of the 50% fallback
C19_Witness ==
    /\ Joined
    /\ "Precio Coste" \notin given.cols
    /\ "Tienda" \in given.cols
    /\ Len(joined.rows) >= 1
    /\ joined.rows[1]["Precio Coste"] = Num(4)
    /\ joined.rows[1]["Beneficio"] = Num(30)

\* C20: after the join the table has one row for each sales row, and the
\* sums of quantity and margin it had before, for every Products table.
C20_AsClaimed ==
    Completed =>
        /\ Len(joined.rows) = Len(SalesRows)
        /\ SumOf(joined.rows, "Cantidad") = SumOf(SalesRows, "Cantidad")
        /\ "Beneficio" \in pre.ret.cols =>
              SumOf(joined.rows, "Beneficio") = SumOf(SalesRows, "Beneficio")

\* one sales row was joined with two Products rows of its code and came
\* out as two rows
C20_Witness ==
    /\ Joined
    /\ Len(SalesRows) = 1
    /\ Len(df_productos.rows) = 2
    /\ Len(joined.rows) = 2
    /\ SumOf(joined.rows, "Cantidad") = 2 * SumOf(SalesRows, "Cantidad")

(***************************************************************************)
(* Claims about the filters of the session, checked under SpecSession.     *)
(***************************************************************************)
\* the sales table in the store
StoredVentas == from_records(data_store.ventas)

\* the analysis page has sales to show
ShowsSales == nav = "analisis" /\ data_store.set /\ data_store.ventas # <<>>

Selected == [c \in FilterColumns |-> IF c = "Temporada" THEN season_filter ELSE family_filter]

\* the table has the column of the filter and a value other than "all" is
\* selected
Active(col) == Selected[col] # "all" /\ col \in StoredVentas.cols

NoDataWarning ==
    Content("alert", "No hay datos para mostrar con los filtros seleccionados.", NoData)

FiltersAfterStore ==
    /\ filter_options = update_filters(data_store)
    /\ ShowsSales =>
          /\ \A col \in FilterColumns :
                (Active(col) /\ Str(Selected[col]) \notin Column(StoredVentas, col)) =>
                    /\ content = NoDataWarning
                    /\ empty(df_ventas)
          /\ LET Kept(row) == \A col \in FilterColumns :
                                  Active(col) => row[col] = Str(Selected[col])
             IN df_ventas.rows = SelectSeq(StoredVentas.rows, Kept)
          /\ (\A col \in FilterColumns : ~Active(col)) =>
                df_ventas.rows = StoredVentas.rows

UploadKeepsSelection ==
    (data_store' # data_store \/ last_upload' # last_upload) =>
        /\ season_filter' = season_filter
        /\ family_filter' = family_filter
        /\ filter_options' = update_filters(data_store')

\* C21: an upload recomputes the options of the two filters and leaves the
\* selected values as they are; with a selected value other than "all"
\* that no row of the current sales table has in the filter's column, the
\* page is the warning that there is no data for the selected filters and
\* no table goes to the aggregates; a filter whose value is "all" or whose
\* column the table lacks removes no row.
C21_StaleFilters == []FiltersAfterStore /\ [][UploadKeepsSelection]_vars

\* season V24 was selected, then a workbook with sales of season I24 only
\* was uploaded: V24 is no longer an option, it is still selected, and the
\* page is the warning
C21_Witness ==
    /\ ShowsSales
    /\ season_filter = "V24"
    /\ filter_options.season = <<"all", "I24">>
    /\ "Temporada" \in StoredVentas.cols
    /\ content = NoDataWarning

====
